---- MODULE Spec2Model ----
(***************************************************************************)
(* Model of notification/views.py: the request handlers of the            *)
(* notification application (notices, single, archive, delete,            *)
(* mark_all_seen) over the Notice and NoticeSetting tables.                *)
(*                                                                         *)
(* SpecLife / SpecSettings run one request at a time, each handler from    *)
(* its first line to its response.  SpecConcLife / SpecConcSettings run    *)
(* the same handlers as concurrent requests, one database call per step.   *)
(***************************************************************************)
EXTENDS Integers, Sequences, FiniteSets, Bags, TLC

\* Number of Notice rows in the table (ids 1..MaxNotices).
MaxNotices == 2

VARIABLES
    notices,    \* the Notice table: id -> row, or NoNotice once deleted
    settings,   \* the NoticeSetting table: a bag of rows
    response,   \* the last completed request and what it returned
    procs       \* the requests in flight (concurrent specifications)

vars == <<notices, settings, response, procs>>

-----------------------------------------------------------------------------
(* Identities and reference data                                           *)

Users == {"alice", "bob", "root"}

is_superuser(user) == user = "root"

\* Users that notices are addressed to.
Recipients == {"alice", "bob"}

NoticeIds == 1..MaxNotices

\* Ids a request may name: 0 is a missing/empty id (noticeid=None), and
\* MaxNotices + 1 is an id no row ever had.
RequestIds == 0..(MaxNotices + 1)

NoNotice == [recipient |-> "", unseen |-> FALSE, archived |-> FALSE, exists |-> FALSE]

Notice(recipient, unseen, archived) ==
    [recipient |-> recipient, unseen |-> unseen, archived |-> archived, exists |-> TRUE]

NextPages == {"/notices/"}

-----------------------------------------------------------------------------
(* Responses                                                               *)

\* raise Http404 / get_object_or_404 failing
Http404 ==
    [status |-> "404", location |-> "", notice |-> NoNotice, notices |-> {}, table |-> <<>>]

HttpResponseRedirect(next_page) ==
    [status |-> "302", location |-> next_page, notice |-> NoNotice, notices |-> {},
     table |-> <<>>]

render_single(notice) ==
    [status |-> "200", location |-> "", notice |-> notice, notices |-> {}, table |-> <<>>]

\* render_to_response(template, context): the context's notices and
\* notice_settings (notice_types is the fixed NoticeTypes)
render_notices(notice_list, notice_settings) ==
    [status |-> "200", location |-> "", notice |-> NoNotice, notices |-> notice_list,
     table |-> notice_settings]

\* reverse("notification_notices")
NoticesUrl == "/notices/"

NoPost == {}

\* A request: the view, request.user, the notice id, the mark_seen argument,
\* request.method and request.POST.
Request(op, user, id, mark_seen, method, post) ==
    [op |-> op, user |-> user, id |-> id, mark_seen |-> mark_seen,
     method |-> method, post |-> post]

-----------------------------------------------------------------------------
(* Notice table                                                            *)

\* Notice.objects.get(id=...) finds a row
NoticeExists(store, id) == id \in NoticeIds /\ store[id].exists

\* notice.save(): every field of the row the request holds is written at
\* its id, not only the field the request changed
save(store, id, notice) == [store EXCEPT ![id] = notice]

\* notice.delete()
delete_row(store, id) == [store EXCEPT ![id] = NoNotice]

\* notice.archive()
archive_notice(notice) == [notice EXCEPT !.archived = TRUE]

\* request.user == notice.recipient or request.user.is_superuser
AuthorizedAnyone(user, notice) == TRUE
Authorized(user, notice) == user = notice.recipient \/ is_superuser(user)

\* Notice.objects.notices_for(user, ...): the user's notices that are not
\* archived (the docstring of notices() describes the result of
\* notices_for(request.user, on_site=True) as the notices "that are not
\* archived"; no call in the views asks for archived ones)
notices_for(store, user) ==
    {i \in NoticeIds : /\ store[i].exists
                       /\ store[i].recipient = user
                       /\ ~store[i].archived}

\* Notice.objects.notices_for(user, unseen=True)
notices_for_unseen(store, user) ==
    {i \in notices_for(store, user) : store[i].unseen}

-----------------------------------------------------------------------------
(* The handlers as functions of the table: [notices, result]               *)

singleSuperuserToo(store, user, id, mark_seen) ==
    IF ~NoticeExists(store, id)
    THEN [notices |-> store, result |-> Http404]
    ELSE LET notice == store[id] IN
         IF user = notice.recipient \/ is_superuser(user)
         THEN IF mark_seen /\ notice.unseen
              THEN LET seen == [notice EXCEPT !.unseen = FALSE] IN
                   [notices |-> save(store, id, seen), result |-> render_single(seen)]
              ELSE [notices |-> store, result |-> render_single(notice)]
         ELSE [notices |-> store, result |-> Http404]

singleToggle(store, user, id, mark_seen) ==
    IF ~NoticeExists(store, id)
    THEN [notices |-> store, result |-> Http404]
    ELSE LET notice == store[id] IN
         IF user = notice.recipient
         THEN IF mark_seen
              THEN LET seen == [notice EXCEPT !.unseen = ~notice.unseen] IN
                   [notices |-> save(store, id, seen), result |-> render_single(seen)]
              ELSE [notices |-> store, result |-> render_single(notice)]
         ELSE [notices |-> store, result |-> Http404]

single(store, user, id, mark_seen) ==
    IF ~NoticeExists(store, id)
    THEN [notices |-> store, result |-> Http404]
    ELSE LET notice == store[id] IN
         IF user = notice.recipient
         THEN IF mark_seen /\ notice.unseen
              THEN LET seen == [notice EXCEPT !.unseen = FALSE] IN
                   [notices |-> save(store, id, seen), result |-> render_single(seen)]
              ELSE [notices |-> store, result |-> render_single(notice)]
         ELSE [notices |-> store, result |-> Http404]

archive(store, user, noticeid, next_page) ==
    IF noticeid # 0 /\ NoticeExists(store, noticeid) /\ Authorized(user, store[noticeid])
    THEN [notices |-> save(store, noticeid, archive_notice(store[noticeid])),
          result  |-> HttpResponseRedirect(next_page)]
    ELSE [notices |-> store, result |-> HttpResponseRedirect(next_page)]

deleteUnchecked(store, user, noticeid, next_page) ==
    IF noticeid # 0 /\ NoticeExists(store, noticeid)
    THEN [notices |-> delete_row(store, noticeid),
          result  |-> HttpResponseRedirect(next_page)]
    ELSE [notices |-> store, result |-> HttpResponseRedirect(next_page)]

delete(store, user, noticeid, next_page) ==
    IF noticeid # 0 /\ NoticeExists(store, noticeid)
    THEN IF Authorized(user, store[noticeid])
         THEN [notices |-> delete_row(store, noticeid),
               result  |-> HttpResponseRedirect(next_page)]
         ELSE [notices |-> store, result |-> HttpResponseRedirect(next_page)]
    ELSE [notices |-> store, result |-> HttpResponseRedirect(next_page)]

mark_all_seenFirstOnly(store, user) ==
    [notices |-> [i \in NoticeIds |->
                    IF /\ i \in notices_for_unseen(store, user)
                       /\ \A j \in notices_for_unseen(store, user) : i <= j
                    THEN [store[i] EXCEPT !.unseen = FALSE]
                    ELSE store[i]],
     result  |-> HttpResponseRedirect(NoticesUrl)]

mark_all_seen(store, user) ==
    [notices |-> [i \in NoticeIds |->
                    IF i \in notices_for_unseen(store, user)
                    THEN [store[i] EXCEPT !.unseen = FALSE]
                    ELSE store[i]],
     result  |-> HttpResponseRedirect(NoticesUrl)]

-----------------------------------------------------------------------------
(* NoticeSetting table and the settings build of notices()                 *)

\* NoticeType.objects.all(), in iteration order
NoticeTypes == << [label |-> "typeA", display |-> "Type A"],
                  [label |-> "typeB", display |-> "Type B"] >>

\* NOTICE_MEDIA: (medium_id, medium_display) pairs
NOTICE_MEDIA == << <<"email", "Email">>, <<"site", "Site">> >>

\* The (notice type, medium) pairs whose declared default is to send.
DefaultOn == { <<"typeA", "email">>, <<"typeA", "site">>, <<"typeB", "site">> }

DefaultSend(notice_type, medium_id) == <<notice_type.label, medium_id>> \in DefaultOn

NoticeSetting(user, notice_type, medium_id, send) ==
    [user |-> user, notice_type |-> notice_type.label, medium |-> medium_id, send |-> send]

\* The rows of the table for one (user, notice type, medium).
SettingRows(store, user, notice_type, medium_id) ==
    {r \in BagToSet(store) : /\ r.user = user
                             /\ r.notice_type = notice_type.label
                             /\ r.medium = medium_id}

\* get_notification_setting(user, notice_type, medium): the row of the
\* triple, created with the declared default when there is none, as one
\* look-up-or-create of the storage layer.
get_notification_setting(store, user, notice_type, medium_id) ==
    LET found == SettingRows(store, user, notice_type, medium_id) IN
    IF found = {}
    THEN LET created == NoticeSetting(user, notice_type, medium_id,
                                      DefaultSend(notice_type, medium_id))
         IN [settings |-> store (+) SetToBag({created}), setting |-> created]
    ELSE [settings |-> store, setting |-> CHOOSE r \in found : TRUE]

\* setting.save(): the row the request holds replaces the stored row it was
\* read from (the row read, or what another request has made of it since)
save_setting(store, old, new) ==
    LET stored == IF CopiesIn(old, store) > 0
                  THEN old
                  ELSE CHOOSE r \in BagToSet(store) : /\ r.user = old.user
                                                      /\ r.notice_type = old.notice_type
                                                      /\ r.medium = old.medium
    IN (store (-) SetToBag({stored})) (+) SetToBag({new})

\* setting = get_notification_setting(request.user, notice_type, medium_id)
load_settingCreate(store, user, notice_type, medium_id) ==
    LET created == NoticeSetting(user, notice_type, medium_id,
                                 DefaultSend(notice_type, medium_id))
    IN [settings |-> store (+) SetToBag({created}), setting |-> created]

load_setting(store, user, notice_type, medium_id) ==
    get_notification_setting(store, user, notice_type, medium_id)

\* "%s_%s" % (notice_type.label, medium_id)
form_label(notice_type, medium_id) == notice_type.label \o "_" \o medium_id

\* request.POST.get(key): the submitted value, or "None"
PostGet(POST, key) ==
    IF \E p \in POST : p[1] = key
    THEN (CHOOSE p \in POST : p[1] = key)[2]
    ELSE "None"

\* The body of the inner loop of notices(): one (notice type, medium) cell.
settings_cellTruthy(store, user, notice_type, medium_id, method, POST) ==
    LET form == form_label(notice_type, medium_id)
        got  == load_setting(store, user, notice_type, medium_id)
    IN IF method = "POST"
       THEN LET new == [got.setting EXCEPT !.send = (PostGet(POST, form) # "None")]
            IN [settings |-> save_setting(got.settings, got.setting, new),
                cell     |-> <<form, new.send>>]
       ELSE [settings |-> got.settings, cell |-> <<form, got.setting.send>>]

settings_cellAnyMethod(store, user, notice_type, medium_id, method, POST) ==
    LET form == form_label(notice_type, medium_id)
        got  == load_setting(store, user, notice_type, medium_id)
        new  == [got.setting EXCEPT !.send = (PostGet(POST, form) = "on")]
    IN [settings |-> save_setting(got.settings, got.setting, new),
        cell     |-> <<form, new.send>>]

settings_cell(store, user, notice_type, medium_id, method, POST) ==
    LET form == form_label(notice_type, medium_id)
        got  == load_setting(store, user, notice_type, medium_id)
    IN IF method = "POST"
       THEN LET new == [got.setting EXCEPT !.send = (PostGet(POST, form) = "on")]
            IN [settings |-> save_setting(got.settings, got.setting, new),
                cell     |-> <<form, new.send>>]
       ELSE [settings |-> got.settings, cell |-> <<form, got.setting.send>>]

\* settings_row.append((form_label, setting.send))
append_cell(cells, c) == [settings |-> c.settings, cells |-> Append(cells, c.cell)]

\* One pass of the loop over NOTICE_MEDIA, after the passes that gave `before`.
next_cell(before, user, notice_type, medium_id, method, POST) ==
    append_cell(before.cells,
                settings_cell(before.settings, user, notice_type, medium_id, method, POST))

\* for medium_id, medium_display in NOTICE_MEDIA: the first j media of a row
RECURSIVE settings_row(_, _, _, _, _, _)
settings_row(store, user, notice_type, method, POST, j) ==
    IF j = 0
    THEN [settings |-> store, cells |-> <<>>]
    ELSE next_cell(settings_row(store, user, notice_type, method, POST, j - 1),
                   user, notice_type, NOTICE_MEDIA[j][1], method, POST)

\* settings_table.append({"notice_type": notice_type, "cells": settings_row})
append_row(rows, notice_type, row) ==
    [settings |-> row.settings,
     rows |-> Append(rows, [notice_type |-> notice_type, cells |-> row.cells])]

\* One pass of the loop over the notice types, after the passes that gave
\* `before`.
next_row(before, user, notice_type, method, POST) ==
    append_row(before.rows, notice_type,
               settings_row(before.settings, user, notice_type, method, POST,
                            Len(NOTICE_MEDIA)))

\* for notice_type in NoticeType.objects.all(): the first i rows
RECURSIVE settings_table(_, _, _, _, _)
settings_table(store, user, method, POST, i) ==
    IF i = 0
    THEN [settings |-> store, rows |-> <<>>]
    ELSE next_row(settings_table(store, user, method, POST, i - 1),
                  user, NoticeTypes[i], method, POST)

column_headersById == [j \in 1..Len(NOTICE_MEDIA) |-> NOTICE_MEDIA[j][1]]

column_headers == [j \in 1..Len(NOTICE_MEDIA) |-> NOTICE_MEDIA[j][2]]

\* notices(request): [settings, result]
notices_context(built, notice_list) ==
    [settings |-> built.settings,
     result   |-> render_notices(notice_list,
                                 [column_headers |-> column_headers,
                                  rows |-> built.rows])]

notices_view(store, notice_store, user, method, POST) ==
    notices_context(settings_table(store, user, method, POST, Len(NoticeTypes)),
                    notices_for(notice_store, user))

\* The submissions a POST may carry: sets of (key, value) pairs.
Posts == { {},
           { <<"typeA_email", "on">> },
           { <<"typeA_email", "on">>, <<"typeB_site", "on">> },
           { <<"typeA_email", "off">>, <<"typeB_email", "on">> },
           { <<"typeA_email", "on">>, <<"typeA_site", "on">>,
             <<"typeB_email", "on">>, <<"typeB_site", "on">> },
           { <<"typeAemail", "on">>, <<"typeB_site", "ON">> } }

-----------------------------------------------------------------------------
(* Requests in flight                                                      *)

\* The server's workers, each handling one request at a time.
ProcIds == {"w1", "w2"}

NoSetting == [user |-> "", notice_type |-> "", medium |-> "", send |-> FALSE]

\* What a worker holds between two database calls: where it is in the
\* handler, the request, the Notice it loaded, the rows a queryset gave it
\* that it has still to go through, the NoticeSetting it loaded and the
\* settings cells built so far.
Worker(pc, request, notice, todo, setting, cells) ==
    [pc |-> pc, request |-> request, notice |-> notice, todo |-> todo,
     setting |-> setting, cells |-> cells]

Idle ==
    Worker("idle", Request("none", "", 0, FALSE, "GET", NoPost), NoNotice, <<>>,
           NoSetting, <<>>)

-----------------------------------------------------------------------------
(* One request at a time                                                   *)

Init ==
    /\ notices \in [NoticeIds -> {Notice(r, TRUE, FALSE) : r \in Recipients}]
    /\ settings = EmptyBag
    /\ response = [request |-> Request("none", "", 0, FALSE, "GET", NoPost), result |-> Http404]
    /\ procs = [p \in ProcIds |-> Idle]

Single ==
    \E user \in Users, id \in RequestIds, mark_seen \in BOOLEAN :
        LET r == single(notices, user, id, mark_seen) IN
        /\ notices' = r.notices
        /\ response' = [request |-> Request("single", user, id, mark_seen, "GET", NoPost),
                        result  |-> r.result]
        /\ UNCHANGED <<settings, procs>>

Archive ==
    \E user \in Users, noticeid \in RequestIds, next_page \in NextPages :
        LET r == archive(notices, user, noticeid, next_page) IN
        /\ notices' = r.notices
        /\ response' = [request |-> Request("archive", user, noticeid, FALSE, "GET", NoPost),
                        result  |-> r.result]
        /\ UNCHANGED <<settings, procs>>

Delete ==
    \E user \in Users, noticeid \in RequestIds, next_page \in NextPages :
        LET r == delete(notices, user, noticeid, next_page) IN
        /\ notices' = r.notices
        /\ response' = [request |-> Request("delete", user, noticeid, FALSE, "GET", NoPost),
                        result  |-> r.result]
        /\ UNCHANGED <<settings, procs>>

MarkAllSeen ==
    \E user \in Users :
        LET r == mark_all_seen(notices, user) IN
        /\ notices' = r.notices
        /\ response' = [request |-> Request("mark_all_seen", user, 0, FALSE, "GET", NoPost),
                        result  |-> r.result]
        /\ UNCHANGED <<settings, procs>>

NextLife == Single \/ Archive \/ Delete \/ MarkAllSeen

SpecLife == Init /\ [][NextLife]_vars

\* What a request to notices() may be: a GET, or a POST with a submission.
Submissions == {<<"GET", NoPost>>} \cup {<<"POST", p>> : p \in Posts}

Notices ==
    \E user \in Users, sub \in Submissions :
        \E r \in {notices_view(settings, notices, user, sub[1], sub[2])} :
        /\ settings' = r.settings
        /\ response' = [request |-> Request("notices", user, 0, FALSE, sub[1], sub[2]),
                        result  |-> r.result]
        /\ UNCHANGED <<notices, procs>>

NextSettings == Notices

SpecSettings == Init /\ [][NextSettings]_vars

-----------------------------------------------------------------------------
(* Concurrent requests on the Notice table, one database call per step      *)

Respond(request, result) == response' = [request |-> request, result |-> result]

\* single(): get_object_or_404, the recipient test, and the response when
\* there is nothing to save
SingleGet(p) ==
    \E user \in Users, id \in RequestIds, mark_seen \in BOOLEAN :
        LET request == Request("single", user, id, mark_seen, "GET", NoPost) IN
        /\ procs[p].pc = "idle"
        /\ IF ~NoticeExists(notices, id) \/ user # notices[id].recipient
           THEN /\ Respond(request, Http404)
                /\ UNCHANGED procs
           ELSE IF mark_seen /\ notices[id].unseen
           THEN /\ procs' = [procs EXCEPT ![p] =
                       Worker("single_save", request,
                              [notices[id] EXCEPT !.unseen = FALSE], <<>>, NoSetting, <<>>)]
                /\ UNCHANGED response
           ELSE /\ Respond(request, render_single(notices[id]))
                /\ UNCHANGED procs
        /\ UNCHANGED <<notices, settings>>

\* single(): notice.save() and the response
SingleSave(p) ==
    /\ procs[p].pc = "single_save"
    /\ notices' = save(notices, procs[p].request.id, procs[p].notice)
    /\ Respond(procs[p].request, render_single(procs[p].notice))
    /\ procs' = [procs EXCEPT ![p] = Idle]
    /\ UNCHANGED settings

\* archive(): Notice.objects.get and the permission test
ArchiveGet(p) ==
    \E user \in Users, noticeid \in RequestIds, next_page \in NextPages :
        LET request == Request("archive", user, noticeid, FALSE, "GET", NoPost) IN
        /\ procs[p].pc = "idle"
        /\ IF noticeid # 0 /\ NoticeExists(notices, noticeid)
                           /\ Authorized(user, notices[noticeid])
           THEN /\ procs' = [procs EXCEPT ![p] =
                       Worker("archive_save", request, notices[noticeid], <<>>, NoSetting, <<>>)]
                /\ UNCHANGED response
           ELSE /\ Respond(request, HttpResponseRedirect(next_page))
                /\ UNCHANGED procs
        /\ UNCHANGED <<notices, settings>>

\* archive(): notice.archive(), which saves the loaded row, and the redirect
ArchiveSave(p) ==
    \E next_page \in NextPages :
        /\ procs[p].pc = "archive_save"
        /\ notices' = save(notices, procs[p].request.id, archive_notice(procs[p].notice))
        /\ Respond(procs[p].request, HttpResponseRedirect(next_page))
        /\ procs' = [procs EXCEPT ![p] = Idle]
        /\ UNCHANGED settings

\* The rows of a set of ids as a sequence, by ascending id.
RECURSIVE RowsById(_, _)
RowsById(store, ids) ==
    IF ids = {}
    THEN <<>>
    ELSE LET i == CHOOSE x \in ids : \A y \in ids : x <= y
         IN <<[id |-> i, notice |-> store[i]]>> \o RowsById(store, ids \ {i})

\* mark_all_seen(): the queryset is evaluated when the loop starts
MarkAllSeenQuery(p) ==
    \E user \in Users :
        LET request == Request("mark_all_seen", user, 0, FALSE, "GET", NoPost)
            rows == RowsById(notices, notices_for_unseen(notices, user))
        IN /\ procs[p].pc = "idle"
           /\ IF rows = <<>>
              THEN /\ Respond(request, HttpResponseRedirect(NoticesUrl))
                   /\ UNCHANGED procs
              ELSE /\ procs' = [procs EXCEPT ![p] =
                          Worker("mark_loop", request, NoNotice, rows, NoSetting, <<>>)]
                   /\ UNCHANGED response
           /\ UNCHANGED <<notices, settings>>

\* mark_all_seen(): one pass of the loop (notice.unseen = False; notice.save()),
\* and the redirect after the last
MarkAllSeenSave(p) ==
    /\ procs[p].pc = "mark_loop"
    /\ LET row == Head(procs[p].todo) IN
       /\ notices' = save(notices, row.id, [row.notice EXCEPT !.unseen = FALSE])
       /\ IF Len(procs[p].todo) = 1
          THEN /\ Respond(procs[p].request, HttpResponseRedirect(NoticesUrl))
               /\ procs' = [procs EXCEPT ![p] = Idle]
          ELSE /\ procs' = [procs EXCEPT ![p].todo = Tail(@)]
               /\ UNCHANGED response
    /\ UNCHANGED settings

\* The requests that save a Notice row they loaded earlier: single, archive
\* and mark_all_seen.
NextConcLife ==
    \E p \in ProcIds :
        \/ SingleGet(p)
        \/ SingleSave(p)
        \/ ArchiveGet(p)
        \/ ArchiveSave(p)
        \/ MarkAllSeenQuery(p)
        \/ MarkAllSeenSave(p)

SpecConcLife == Init /\ [][NextConcLife]_vars

-----------------------------------------------------------------------------
(* Concurrent requests to notices(), one database call per step            *)

\* The cells of the table in the order the loops visit them: cell k is
\* notice type CellType(k), medium CellMedium(k).
NumCells == Len(NoticeTypes) * Len(NOTICE_MEDIA)
CellType(k) == NoticeTypes[((k - 1) \div Len(NOTICE_MEDIA)) + 1]
CellMedium(k) == NOTICE_MEDIA[((k - 1) % Len(NOTICE_MEDIA)) + 1][1]

\* settings_table as the loops leave it: the cells grouped into rows
RowsOf(cells) ==
    [i \in 1..Len(NoticeTypes) |->
        [notice_type |-> NoticeTypes[i],
         cells |-> [j \in 1..Len(NOTICE_MEDIA) |-> cells[(i - 1) * Len(NOTICE_MEDIA) + j]]]]

\* settings_row.append(...), then the next pass of the loops, or after the
\* last cell the response
CellDone(p, request, cells) ==
    IF Len(cells) = NumCells
    THEN /\ Respond(request,
                    render_notices(notices_for(notices, request.user),
                                   [column_headers |-> column_headers,
                                    rows |-> RowsOf(cells)]))
         /\ procs' = [procs EXCEPT ![p] = Idle]
    ELSE /\ procs' = [procs EXCEPT ![p] =
                Worker("cell_get", request, NoNotice, <<>>, NoSetting, cells)]
         /\ UNCHANGED response

\* get_notification_setting for the next cell; on a GET the cell is done
CellGetStep(p, request, cells) ==
    LET k == Len(cells) + 1
        got == load_setting(settings, request.user, CellType(k), CellMedium(k))
    IN /\ settings' = got.settings
       /\ IF request.method = "POST"
          THEN /\ procs' = [procs EXCEPT ![p] =
                      Worker("cell_save", request, NoNotice, <<>>, got.setting, cells)]
               /\ UNCHANGED response
          ELSE CellDone(p, request,
                        Append(cells, <<form_label(CellType(k), CellMedium(k)),
                                        got.setting.send>>))
       /\ UNCHANGED notices

\* The requests to notices() that run concurrently: two users, each with a
\* GET or a POST that turns some cells on and the others off.
ConcUsers == {"alice", "bob"}
ConcSubmissions ==
    { <<"GET", NoPost>>,
      <<"POST", { <<"typeA_email", "on">>, <<"typeB_site", "on">> }>> }

\* notices(): a request arrives and reads its first setting
NoticesBegin(p) ==
    \E user \in ConcUsers, sub \in ConcSubmissions :
        /\ procs[p].pc = "idle"
        /\ CellGetStep(p, Request("notices", user, 0, FALSE, sub[1], sub[2]), <<>>)

\* notices(): get_notification_setting of a later cell
CellGet(p) ==
    /\ procs[p].pc = "cell_get"
    /\ CellGetStep(p, procs[p].request, procs[p].cells)

\* notices(): setting.send = ...; setting.save() of a POST
CellSave(p) ==
    /\ procs[p].pc = "cell_save"
    /\ LET request == procs[p].request
           k == Len(procs[p].cells) + 1
           form == form_label(CellType(k), CellMedium(k))
           new == [procs[p].setting EXCEPT !.send = (PostGet(request.post, form) = "on")]
       IN /\ settings' = save_setting(settings, procs[p].setting, new)
          /\ CellDone(p, request, Append(procs[p].cells, <<form, new.send>>))
    /\ UNCHANGED notices

NextConcSettings ==
    \E p \in ProcIds :
        \/ NoticesBegin(p)
        \/ CellGet(p)
        \/ CellSave(p)

SpecConcSettings == Init /\ [][NextConcSettings]_vars

-----------------------------------------------------------------------------
(* Properties of the notice lifecycle (SpecLife)                           *)

req == response.request

\* The user is the notice's recipient, or holds superuser privilege.
RecipientOrSuperuser(user, notice) == user = notice.recipient \/ user = "root"

\* The notice a request names is in the table, and the requesting user is
\* neither its recipient nor a superuser.
Unauthorized(r, store) ==
    /\ r.id \in NoticeIds
    /\ store[r.id].exists
    /\ ~RecipientOrSuperuser(r.user, store[r.id])

FlagsChanged(i) ==
    /\ notices[i].exists
    /\ notices'[i].exists
    /\ \/ notices'[i].unseen # notices[i].unseen
       \/ notices'[i].archived # notices[i].archived

\* C1: in every step of single, archive, delete and mark_all_seen requests,
\* a notice's unseen or archived flag changes only if the requesting user is
\* the notice's recipient or a superuser; an archive request by anyone else
\* leaves the whole table unchanged and still answers with the redirect.
C1_OnlyRecipientOrSuperuserMutates ==
    [][/\ \A i \in NoticeIds :
            FlagsChanged(i) => RecipientOrSuperuser(response'.request.user, notices[i])
       /\ (response'.request.op = "archive" /\ Unauthorized(response'.request, notices))
            => /\ notices' = notices
               /\ response'.result.status = "302"]_vars

C1_Witness ==
    /\ req.op = "archive"
    /\ Unauthorized(req, notices)
    /\ ~notices[req.id].archived
    /\ response.result.status = "302"

\* What an authorized delete that removed the notice returns to its caller.
CompletedDeleteResults(store, id) ==
    {delete(store, store[id].recipient, id, np).result : np \in NextPages}

C7_MarkSeenIdempotent ==
    \A user \in Users, id \in RequestIds :
        LET once  == single(notices, user, id, TRUE).notices
            twice == single(once, user, id, TRUE).notices
        IN /\ twice = once
           /\ (NoticeExists(notices, id) /\ ~notices[id].unseen) => once = notices

C7_Witness ==
    /\ req.op = "single"
    /\ req.mark_seen
    /\ response.result.status = "200"
    /\ NoticeExists(notices, req.id)
    /\ req.user = notices[req.id].recipient
    /\ ~notices[req.id].unseen

\* C8: a single request for an id with no notice, or by a user (superuser
\* or not) who is not the notice's recipient, ends in the same not-found
\* response and changes no notice.
C8_SingleNotFound ==
    [][(/\ response'.request.op = "single"
        /\ \/ ~NoticeExists(notices, response'.request.id)
           \/ response'.request.user # notices[response'.request.id].recipient)
         => /\ notices' = notices
            /\ response'.result = Http404]_vars

C8_Witness ==
    /\ req.op = "single"
    /\ req.mark_seen
    /\ is_superuser(req.user)
    /\ NoticeExists(notices, req.id)
    /\ notices[req.id].unseen
    /\ response.result = Http404

-----------------------------------------------------------------------------
(* Properties of the settings build (SpecSettings)                         *)

TypeIndex == 1..Len(NoticeTypes)
MediaIndex == 1..Len(NOTICE_MEDIA)

\* The key "{type_label}_{medium_id}" of a cell is submitted with value "on".
SubmittedOn(POST, i, j) ==
    \E p \in POST : /\ p[1] = NoticeTypes[i].label \o "_" \o NOTICE_MEDIA[j][1]
                    /\ p[2] = "on"

HasSettings(store, user) == \E r \in BagToSet(store) : r.user = user

\* C3: after a POST to notices() has returned, the stored send value of every
\* (user, notice type, medium) setting of the requesting user is TRUE exactly
\* when the submission holds the cell's key with value "on" and FALSE
\* otherwise, and the returned cells carry those values under those keys.
C3_PostSetsSubmittedValues ==
    (req.op = "notices" /\ req.method = "POST") =>
        \A i \in TypeIndex, j \in MediaIndex :
            LET rows == SettingRows(settings, req.user, NoticeTypes[i], NOTICE_MEDIA[j][1])
                cell == response.result.table.rows[i].cells[j]
            IN /\ rows # {}
               /\ \A r \in rows : r.send = SubmittedOn(req.post, i, j)
               /\ cell[2] = SubmittedOn(req.post, i, j)
               /\ cell[1] = NoticeTypes[i].label \o "_" \o NOTICE_MEDIA[j][1]

\* 2 x 2 table, submission {"typeA_email": "on"}: one TRUE cell, three FALSE.
C3_Witness ==
    /\ req.op = "notices"
    /\ req.method = "POST"
    /\ req.post = { <<"typeA_email", "on">> }
    /\ response.result.table.rows[1].cells = << <<"typeA_email", TRUE>>, <<"typeA_site", FALSE>> >>
    /\ response.result.table.rows[2].cells = << <<"typeB_email", FALSE>>, <<"typeB_site", FALSE>> >>

\* The table of a user whose settings are all at their declared defaults.
DefaultTable ==
    [column_headers |-> [j \in MediaIndex |-> NOTICE_MEDIA[j][2]],
     rows |-> [i \in TypeIndex |->
                 [notice_type |-> NoticeTypes[i],
                  cells |-> [j \in MediaIndex |->
                               << NoticeTypes[i].label \o "_" \o NOTICE_MEDIA[j][1],
                                  <<NoticeTypes[i].label, NOTICE_MEDIA[j][1]>> \in DefaultOn >>]]]]

\* C4: a GET of notices() by a user with no settings yet returns one column
\* header per medium in order and one row per notice type in order, each row
\* with one (form key, boolean) cell per medium in column order, the boolean
\* being the declared default of that (type, medium).
C4_GetReturnsDefaultTable ==
    [][(/\ response'.request.op = "notices"
        /\ response'.request.method = "GET"
        /\ ~HasSettings(settings, response'.request.user))
         => response'.result.table = DefaultTable]_vars

C4_Witness ==
    /\ req.op = "notices"
    /\ req.method = "GET"
    /\ response.result.table = DefaultTable
    /\ Len(response.result.table.rows) = 2
    /\ \A r \in BagToSet(settings) :
          r.user = req.user => r.send = (<<r.notice_type, r.medium>> \in DefaultOn)

\* C10: a GET of notices() leaves every existing setting row as it is, a POST
\* of user U leaves every row of every other user as it is, and neither
\* changes the notice table.
C10_SettingsFrame ==
    [][response'.request.op = "notices" =>
         /\ notices' = notices
         /\ response'.request.method = "GET" =>
               \A r \in BagToSet(settings) : CopiesIn(r, settings') >= CopiesIn(r, settings)
         /\ response'.request.method = "POST" =>
               \A r \in BagToSet(settings) \cup BagToSet(settings') :
                   r.user # response'.request.user
                     => CopiesIn(r, settings') = CopiesIn(r, settings)]_vars

C10_Witness ==
    /\ req.op = "notices"
    /\ req.method = "POST"
    /\ req.post = {}
    /\ \E r \in BagToSet(settings) : r.user # req.user /\ r.send
    /\ \E i \in NoticeIds : notices[i].exists /\ notices[i].unseen

-----------------------------------------------------------------------------
(* Properties under concurrent requests                                    *)

\* C9: under any interleaving of single, archive and mark_all_seen requests,
\* a notice that is archived stays archived: no save of a request that
\* loaded the notice before it was archived makes it active again.
C9_Original ==
    [][\A i \in NoticeIds : notices[i].archived => notices'[i].archived]_vars

\* The table holds exactly one row for the (user, type, medium) of cell k.
OneSetting(user, k) ==
    LET rows == SettingRows(settings, user, CellType(k), CellMedium(k)) IN
    /\ Cardinality(rows) = 1
    /\ \A r \in rows : CopiesIn(r, settings) = 1

\* The cells a worker's request has looked up so far.
Accessed(p) ==
    IF procs[p].pc = "cell_get" THEN 1..Len(procs[p].cells)
    ELSE IF procs[p].pc = "cell_save" THEN 1..(Len(procs[p].cells) + 1)
    ELSE {}

\* C5: under any interleaving of notices() requests, no (user, type, medium)
\* has more than one NoticeSetting row, and every triple a request has looked
\* up, in flight or completed, has exactly one.
C5_OneSettingPerTriple ==
    /\ \A r \in BagToSet(settings) : CopiesIn(r, settings) = 1
    /\ \A r1, r2 \in BagToSet(settings) :
          (r1.user = r2.user /\ r1.notice_type = r2.notice_type /\ r1.medium = r2.medium)
             => r1 = r2
    /\ \A p \in ProcIds : \A k \in Accessed(p) : OneSetting(procs[p].request.user, k)
    /\ req.op = "notices" => \A k \in 1..NumCells : OneSetting(req.user, k)

\* Two requests of one user are in flight on the same cell, both having
\* looked its setting up.
C5_Witness ==
    /\ procs["w1"].pc = "cell_save"
    /\ procs["w2"].pc = "cell_save"
    /\ procs["w1"].request.user = procs["w2"].request.user
    /\ Len(procs["w1"].cells) = Len(procs["w2"].cells)
    /\ OneSetting(procs["w1"].request.user, Len(procs["w1"].cells) + 1)

====
